---- MODULE Spec2Model ----
(***************************************************************************)
(* Model of piksi_tools/console/output_list.py: the LogItem constructor    *)
(* and the OutputList buffer (unfiltered_list, _paused_buffer,             *)
(* filtered_list) with its write, write_level, clear, filter and pause     *)
(* handlers.                                                               *)
(*                                                                         *)
(* A text is a sequence of one-character strings.  An optional value       *)
(* (Python's None or a value) is the empty sequence or a one-element       *)
(* sequence.  A LogItem is a record; its timestamp is the ordinal of its   *)
(* creation, which also stands for the object's identity.  The three       *)
(* lists are Traits List attributes: assigning a list to one of them       *)
(* stores a new list object with the same items, so the model's value      *)
(* semantics of sequences is that of the attributes.  The Traits           *)
(* framework calls _<name>_changed only when the assigned value differs    *)
(* from the attribute's value.  flush and close do not touch the data and  *)
(* are not modelled.  last and pause_hist are history variables: the last  *)
(* call with its arguments, and what the latest pause started from and     *)
(* was given; the handlers set last, HistNext sets pause_hist.             *)
(***************************************************************************)
EXTENDS Integers, Sequences, FiniteSets

VARIABLES unfiltered_list, _paused_buffer, filtered_list,
          log_level_filter, max_len, paused, clock, last, pause_hist

vars == <<unfiltered_list, _paused_buffer, filtered_list,
          log_level_filter, max_len, paused, clock, last, pause_hist>>

lists == <<unfiltered_list, _paused_buffer, filtered_list>>

\* ---------------------------------------------------------------- bounds
\* Largest capacity a behaviour starts with or is configured to.
MaxCap == 2
\* LogItems created in one behaviour of Spec and SpecCfg.
MaxWrites == 3
\* LogItems created in one behaviour of SpecText.
MaxTextWrites == 2

\* ---------------------------------------------------------- Python values
None == <<>>
Some(x) == <<x>>
Val(o) == o[1]

\* ------------------------------------------------------------- constants
LOG_ERROR == 3
LOG_WARN == 4
LOG_INFO == 6
LOG_DEBUG == 7
LOG_LEVEL_CONSOLE == -1
LOG_LEVEL_DEFAULT == -2

SYSLOG_LEVELS ==
  [k \in {LOG_ERROR, LOG_WARN, LOG_INFO, LOG_DEBUG} |->
     CASE k = LOG_ERROR -> <<"E", "R", "R", "O", "R">>
       [] k = LOG_WARN -> <<"W", "A", "R", "N", "I", "N", "G">>
       [] k = LOG_INFO -> <<"I", "N", "F", "O">>
       [] k = LOG_DEBUG -> <<"D", "E", "B", "U", "G">>]

\* ------------------------------------------------------ string functions
Upper == <<"A", "B", "C", "D", "E", "F", "G", "H", "I", "J", "K", "L", "M",
           "N", "O", "P", "Q", "R", "S", "T", "U", "V", "W", "X", "Y", "Z">>
Lower == <<"a", "b", "c", "d", "e", "f", "g", "h", "i", "j", "k", "l", "m",
           "n", "o", "p", "q", "r", "s", "t", "u", "v", "w", "x", "y", "z">>

\* The characters str.isspace accepts ("VT" stands for the vertical tab).
Whitespace == {" ", "\t", "\n", "\r", "\f", "VT"}

\* str.lower
lower(s) ==
  [i \in 1..Len(s) |->
     IF \E j \in 1..Len(Upper) : Upper[j] = s[i]
     THEN Lower[CHOOSE j \in 1..Len(Upper) : Upper[j] = s[i]]
     ELSE s[i]]

\* str.isspace: at least one character and nothing but whitespace
isspace(s) == Len(s) > 0 /\ \A i \in 1..Len(s) : s[i] \in Whitespace

\* s.split(":")[0]: the characters before the first colon, all of s without one
RECURSIVE split_colons_0(_)
split_colons_0(s) ==
  IF s = <<>> \/ Head(s) = ":" THEN <<>>
  ELSE <<Head(s)>> \o split_colons_0(Tail(s))

\* s.rstrip('\n')
RECURSIVE rstrip_nl(_)
rstrip_nl(s) ==
  IF s # <<>> /\ s[Len(s)] = "\n" THEN rstrip_nl(SubSeq(s, 1, Len(s) - 1))
  ELSE s

\* --------------------------------------------------------------- LogItem
\* The level the loop of LogItem.__init__ leaves in log_level.
InferLevel(msg) ==
  LET matching == {key \in DOMAIN SYSLOG_LEVELS :
                     lower(split_colons_0(msg)) = lower(SYSLOG_LEVELS[key])}
  IN IF matching = {} THEN LOG_LEVEL_DEFAULT
     ELSE CHOOSE key \in matching : TRUE

LogItem_NoZero(msg, level, now) ==
  [log_level |-> IF level = None \/ level = Some(0) THEN InferLevel(msg)
                 ELSE Val(level),
   msg |-> rstrip_nl(msg),
   timestamp |-> now]

\* LogItem.__init__(msg, level), created at instant now
LogItem(msg, level, now) ==
  [log_level |-> IF level = None THEN InferLevel(msg) ELSE Val(level),
   msg |-> rstrip_nl(msg),
   timestamp |-> now]

matches_log_level_filter_Strict(item, log_level) == item.log_level < log_level

matches_log_level_filter_Syslog(item, log_level) ==
  item.log_level \in DOMAIN SYSLOG_LEVELS /\ item.log_level <= log_level

\* LogItem.matches_log_level_filter
matches_log_level_filter(item, log_level) == item.log_level <= log_level

\* ------------------------------------------------------------ OutputList
Raised == [raised |-> TRUE, buffer |-> <<>>]
Returned(b) == [raised |-> FALSE, buffer |-> b]

append_truncate_NoPop(buffer, s) ==
  IF max_len = None THEN Raised
  ELSE IF Len(buffer) > Val(max_len)
       THEN IF Len(buffer) - Val(max_len) = 1
            THEN Returned(<<s>> \o buffer)
            ELSE Raised
       ELSE Returned(<<s>> \o buffer)

append_truncate_Truncate(buffer, s) ==
  IF max_len = None THEN Raised
  ELSE IF Len(buffer) > Val(max_len)
       THEN Returned(<<s>> \o SubSeq(buffer, 1, Val(max_len)))
       ELSE Returned(<<s>> \o buffer)

append_truncate_Tail(buffer, s) ==
  IF max_len = None THEN Raised
  ELSE IF Len(buffer) > Val(max_len)
       THEN IF Len(buffer) - Val(max_len) = 1
            THEN Returned(SubSeq(buffer, 1, Len(buffer) - 1) \o <<s>>)
            ELSE Raised
       ELSE Returned(buffer \o <<s>>)

\* OutputList.append_truncate: the list the call leaves in buffer, or that it
\* raised (the failed assertion; with max_len None, the TypeError of
\* len(buffer) - None) and left buffer alone.
append_truncate(buffer, s) ==
  IF max_len = None THEN Raised
  ELSE IF Len(buffer) > Val(max_len)
       THEN IF Len(buffer) - Val(max_len) = 1
            THEN Returned(<<s>> \o SubSeq(buffer, 1, Len(buffer) - 1))
            ELSE Raised
       ELSE Returned(<<s>> \o buffer)

RECURSIVE Filtered_TakeWhile(_, _)
Filtered_TakeWhile(list, level) ==
  IF list = <<>> THEN <<>>
  ELSE IF matches_log_level_filter(Head(list), level)
       THEN <<Head(list)>> \o Filtered_TakeWhile(Tail(list), level)
       ELSE <<>>

\* The list comprehension of _log_level_filter_changed.
RECURSIVE Filtered(_, _)
Filtered(list, level) ==
  IF list = <<>> THEN <<>>
  ELSE IF matches_log_level_filter(Head(list), level)
       THEN <<Head(list)>> \o Filtered(Tail(list), level)
       ELSE Filtered(Tail(list), level)

Route_Alias(log, op) ==
  IF paused
  THEN LET r == append_truncate(_paused_buffer, log)
       IN /\ _paused_buffer' = IF r.raised THEN _paused_buffer ELSE r.buffer
          /\ unfiltered_list' = IF r.raised THEN unfiltered_list ELSE r.buffer
          /\ filtered_list' = filtered_list
          /\ last' = [op EXCEPT !.raised = r.raised]
  ELSE LET r == append_truncate(unfiltered_list, log)
           f == IF ~r.raised /\ matches_log_level_filter(log, log_level_filter)
                THEN append_truncate(filtered_list, log)
                ELSE Returned(filtered_list)
       IN /\ unfiltered_list' = IF r.raised THEN unfiltered_list ELSE r.buffer
          /\ filtered_list' = IF f.raised THEN filtered_list ELSE f.buffer
          /\ _paused_buffer' = _paused_buffer
          /\ last' = [op EXCEPT !.raised = r.raised \/ f.raised]

\* The body shared by write (lines 189-194) and write_level (lines 209-214):
\* an exception of append_truncate ends the call where it is raised.
Route(log, op) ==
  IF paused
  THEN LET r == append_truncate(_paused_buffer, log)
       IN /\ _paused_buffer' = IF r.raised THEN _paused_buffer ELSE r.buffer
          /\ unfiltered_list' = unfiltered_list
          /\ filtered_list' = filtered_list
          /\ last' = [op EXCEPT !.raised = r.raised]
  ELSE LET r == append_truncate(unfiltered_list, log)
           f == IF ~r.raised /\ matches_log_level_filter(log, log_level_filter)
                THEN append_truncate(filtered_list, log)
                ELSE Returned(filtered_list)
       IN /\ unfiltered_list' = IF r.raised THEN unfiltered_list ELSE r.buffer
          /\ filtered_list' = IF f.raised THEN filtered_list ELSE f.buffer
          /\ _paused_buffer' = _paused_buffer
          /\ last' = [op EXCEPT !.raised = r.raised \/ f.raised]

LastOp(name, s, level) == [op |-> name, s |-> s, level |-> level, raised |-> FALSE]

write_Strip(s) ==
  /\ IF ~(s = <<>> \/ isspace(s))
     THEN /\ Route(LogItem(s, Some(LOG_LEVEL_CONSOLE), clock + 1),
                   LastOp("write", s, None))
          /\ clock' = clock + 1
     ELSE /\ UNCHANGED <<lists, clock>>
          /\ last' = LastOp("write", s, None)
  /\ UNCHANGED <<log_level_filter, max_len, paused>>

write_Infer(s) ==
  /\ IF ~isspace(s)
     THEN /\ Route(LogItem(s, None, clock + 1), LastOp("write", s, None))
          /\ clock' = clock + 1
     ELSE /\ UNCHANGED <<lists, clock>>
          /\ last' = LastOp("write", s, None)
  /\ UNCHANGED <<log_level_filter, max_len, paused>>

\* OutputList.write(s)
write(s) ==
  /\ IF ~isspace(s)
     THEN /\ Route(LogItem(s, Some(LOG_LEVEL_CONSOLE), clock + 1),
                   LastOp("write", s, None))
          /\ clock' = clock + 1
     ELSE /\ UNCHANGED <<lists, clock>>
          /\ last' = LastOp("write", s, None)
  /\ UNCHANGED <<log_level_filter, max_len, paused>>

\* OutputList.write_level(s, level)
write_level(s, level) ==
  /\ Route(LogItem(s, level, clock + 1), LastOp("write_level", s, level))
  /\ clock' = clock + 1
  /\ UNCHANGED <<log_level_filter, max_len, paused>>

clear_KeepStaging ==
  /\ filtered_list' = <<>>
  /\ unfiltered_list' = <<>>
  /\ last' = LastOp("clear", <<>>, None)
  /\ UNCHANGED <<_paused_buffer, log_level_filter, max_len, paused, clock>>

\* OutputList.clear()
clear ==
  /\ _paused_buffer' = <<>>
  /\ filtered_list' = <<>>
  /\ unfiltered_list' = <<>>
  /\ last' = LastOp("clear", <<>>, None)
  /\ UNCHANGED <<log_level_filter, max_len, paused, clock>>

SetLogLevelFilter_FromStaging(value) ==
  /\ log_level_filter' = value
  /\ filtered_list' = IF value # log_level_filter
                      THEN Filtered(IF paused THEN _paused_buffer
                                    ELSE unfiltered_list, value)
                      ELSE filtered_list
  /\ last' = LastOp(IF value # log_level_filter THEN "log_level_filter"
                    ELSE "log_level_filter_same", <<>>, Some(value))
  /\ UNCHANGED <<unfiltered_list, _paused_buffer, max_len, paused, clock>>

SetLogLevelFilter_Keep(value) ==
  /\ log_level_filter' = value
  /\ filtered_list' = filtered_list
  /\ last' = LastOp(IF value # log_level_filter THEN "log_level_filter"
                    ELSE "log_level_filter_same", <<>>, Some(value))
  /\ UNCHANGED <<unfiltered_list, _paused_buffer, max_len, paused, clock>>

\* Assignment of value to log_level_filter, and OutputList._log_level_filter_changed,
\* which runs when the value changes.
SetLogLevelFilter(value) ==
  /\ log_level_filter' = value
  /\ filtered_list' = IF value # log_level_filter
                      THEN Filtered(unfiltered_list, value)
                      ELSE filtered_list
  /\ last' = LastOp(IF value # log_level_filter THEN "log_level_filter"
                    ELSE "log_level_filter_same", <<>>, Some(value))
  /\ UNCHANGED <<unfiltered_list, _paused_buffer, max_len, paused, clock>>

SetPaused_Extend(value) ==
  /\ paused' = value
  /\ IF value = paused
     THEN UNCHANGED lists
     ELSE IF value
          THEN /\ _paused_buffer' = unfiltered_list
               /\ UNCHANGED <<unfiltered_list, filtered_list>>
          ELSE /\ unfiltered_list' = _paused_buffer \o unfiltered_list
               /\ filtered_list' = Filtered(_paused_buffer \o unfiltered_list,
                                            log_level_filter)
               /\ _paused_buffer' = <<>>
  /\ last' = LastOp(IF value = paused THEN "paused_same"
                    ELSE IF value THEN "pause" ELSE "unpause", <<>>, None)
  /\ UNCHANGED <<log_level_filter, max_len, clock>>

SetPaused_NoSeed(value) ==
  /\ paused' = value
  /\ IF value = paused
     THEN UNCHANGED lists
     ELSE IF value
          THEN UNCHANGED lists
          ELSE /\ unfiltered_list' = _paused_buffer
               /\ filtered_list' = Filtered(_paused_buffer, log_level_filter)
               /\ _paused_buffer' = <<>>
  /\ last' = LastOp(IF value = paused THEN "paused_same"
                    ELSE IF value THEN "pause" ELSE "unpause", <<>>, None)
  /\ UNCHANGED <<log_level_filter, max_len, clock>>

SetPaused_Always(value) ==
  /\ paused' = value
  /\ IF value
     THEN /\ _paused_buffer' = unfiltered_list
          /\ UNCHANGED <<unfiltered_list, filtered_list>>
     ELSE /\ unfiltered_list' = _paused_buffer
          /\ filtered_list' = Filtered(_paused_buffer, log_level_filter)
          /\ _paused_buffer' = <<>>
  /\ last' = LastOp(IF value THEN "pause" ELSE "unpause", <<>>, None)
  /\ UNCHANGED <<log_level_filter, max_len, clock>>

SetPaused_NoRefilter(value) ==
  /\ paused' = value
  /\ IF value = paused
     THEN UNCHANGED lists
     ELSE IF value
          THEN /\ _paused_buffer' = unfiltered_list
               /\ UNCHANGED <<unfiltered_list, filtered_list>>
          ELSE /\ unfiltered_list' = _paused_buffer
               /\ filtered_list' = filtered_list
               /\ _paused_buffer' = <<>>
  /\ last' = LastOp(IF value = paused THEN "paused_same"
                    ELSE IF value THEN "pause" ELSE "unpause", <<>>, None)
  /\ UNCHANGED <<log_level_filter, max_len, clock>>

\* Assignment of value to paused, and OutputList._paused_changed, which runs
\* when the value changes.
SetPaused(value) ==
  /\ paused' = value
  /\ IF value = paused
     THEN UNCHANGED lists
     ELSE IF value
          THEN /\ _paused_buffer' = unfiltered_list
               /\ UNCHANGED <<unfiltered_list, filtered_list>>
          ELSE /\ unfiltered_list' = _paused_buffer
               /\ filtered_list' = Filtered(_paused_buffer, log_level_filter)
               /\ _paused_buffer' = <<>>
  /\ last' = LastOp(IF value = paused THEN "paused_same"
                    ELSE IF value THEN "pause" ELSE "unpause", <<>>, None)
  /\ UNCHANGED <<log_level_filter, max_len, clock>>

\* Assignment of value (None or an integer) to max_len; no handler runs.
SetMaxLen(value) ==
  /\ max_len' = value
  /\ last' = LastOp("max_len", <<>>, value)
  /\ UNCHANGED <<lists, log_level_filter, paused, clock>>

\* ---------------------------------------------------------------- inputs
\* Texts written in Spec and SpecCfg: "\n", "ERROR:x", "debug".
Texts == { <<"\n">>,
           <<"E", "R", "R", "O", "R", ":", "x">>,
           <<"d", "e", "b", "u", "g">> }
Levels == { None, Some(LOG_DEBUG) }
\* Texts written with a level in Spec: "debug" without a level is an entry of
\* level LOG_DEBUG, which the level LOG_DEBUG given with the other texts
\* already produces.
LeveledTexts == { <<"\n">>,
                  <<"E", "R", "R", "O", "R", ":", "x">> }

\* Texts written in SpecText.
AllTexts ==
  Texts \cup
  { <<>>,
    <<" ", "\t", "\n">>,
    <<" ", "x">>,
    <<":">>,
    <<"e", "r", "r", "o", "r", ":", " ", "d">>,
    <<"W", "a", "r", "n", "i", "n", "g">>,
    <<"I", "N", "F", "O", ":", "a", ":", "b">>,
    <<" ", "E", "R", "R", "O", "R", ":", "x">>,
    <<"E", "R", "R", "O", "R", "\n">>,
    <<"x", ":", "E", "R", "R", "O", "R">> }
\* Explicit levels given in SpecText.
ExplicitLevels == { Some(0), Some(LOG_DEBUG), Some(9) }

\* ------------------------------------------------------- pause history
\* pause_hist: the items of unfiltered_list when the latest pause began, the
\* items created since by the writes made while paused (newest first), and
\* whether clear was called in that pause (which ends the record).  The record
\* is kept while paused and in the state the unpausing reaches, and is blank
\* otherwise.
PauseFrom(list) == [base |-> list, written |-> <<>>, cleared |-> FALSE]
Cleared == [base |-> <<>>, written |-> <<>>, cleared |-> TRUE]
NoPause == PauseFrom(<<>>)

\* The item the write recorded in l created at instant now.
Created(l, now) ==
  LogItem(l.s, IF l.op = "write" THEN Some(LOG_LEVEL_CONSOLE) ELSE l.level, now)

\* pause_hist after a step.
HistNext ==
  pause_hist' =
    IF ~paused' THEN IF paused THEN pause_hist ELSE NoPause
    ELSE IF ~paused THEN PauseFrom(unfiltered_list)
    ELSE IF last'.op = "clear" THEN Cleared
    ELSE IF clock' = clock + 1
         THEN [pause_hist EXCEPT !.written = <<Created(last', clock')>> \o @]
         ELSE pause_hist

\* -------------------------------------------------------- specifications
\* The state after construction: empty lists, the first value of the Enum
\* as filter, not paused; max_len is configured to a positive capacity.
Init ==
  /\ unfiltered_list = <<>>
  /\ _paused_buffer = <<>>
  /\ filtered_list = <<>>
  /\ log_level_filter = LOG_ERROR
  /\ max_len \in {Some(n) : n \in 1..MaxCap}
  /\ paused = FALSE
  /\ clock = 0
  /\ last = LastOp("init", <<>>, None)
  /\ pause_hist = NoPause

\* No pause history is kept.
NoHist == UNCHANGED pause_hist

Next ==
  \/ \E s \in Texts : clock < MaxWrites /\ write(s) /\ HistNext
  \/ \E s \in LeveledTexts, level \in Levels :
       clock < MaxWrites /\ write_level(s, level) /\ HistNext
  \/ clear /\ HistNext
  \/ \E value \in DOMAIN SYSLOG_LEVELS : SetLogLevelFilter(value) /\ HistNext
  \/ \E value \in BOOLEAN : SetPaused(value) /\ HistNext

\* max_len stays the capacity it was constructed with.
Spec == Init /\ [][Next]_vars

NextCfg ==
  \/ \E s \in Texts : clock < MaxWrites /\ write(s) /\ NoHist
  \/ \E s \in Texts : clock < MaxWrites /\ write_level(s, None) /\ NoHist
  \/ clear /\ NoHist
  \/ \E value \in DOMAIN SYSLOG_LEVELS : SetLogLevelFilter(value) /\ NoHist
  \/ \E value \in BOOLEAN : SetPaused(value) /\ NoHist
  \/ \E value \in {None} \cup {Some(n) : n \in 0..MaxCap} :
       SetMaxLen(value) /\ NoHist

\* max_len is reconfigured while the buffer is in use; leveled writes infer
\* their level.
SpecCfg == Init /\ [][NextCfg]_vars

NextText ==
  \/ \E s \in AllTexts : clock < MaxTextWrites /\ write(s) /\ NoHist
  \/ \E s \in AllTexts : clock < MaxTextWrites /\ write_level(s, None) /\ NoHist
  \/ \E s \in Texts, level \in ExplicitLevels :
       clock < MaxTextWrites /\ write_level(s, level) /\ NoHist
  \/ \E value \in BOOLEAN : SetPaused(value) /\ NoHist

\* Few writes of many texts and levels, paused and not.
SpecText == Init /\ [][NextText]_vars

\* ---------------------------------------------------------------- claims
\* What a step did, read from the state after it.
IsWrite(l) == l.op \in {"write", "write_level"}

\* The list a write appends to.
Target == IF paused THEN _paused_buffer ELSE unfiltered_list

\* list without its last (oldest) item
Front(list) == SubSeq(list, 1, Len(list) - 1)

\* The items of list that pass the threshold, in the order of list.
Passing(list, threshold) ==
  SelectSeq(list, LAMBDA item : item.log_level <= threshold)

\* The step created a LogItem, and list' is list with that item put in front,
\* the oldest item of list dropped or not.
PutInFront(list) ==
  /\ list' # <<>>
  /\ Head(list').timestamp = clock'
  /\ Tail(list') \in {list, Front(list)}

\* C1 (as claimed): with max_len set, after every write the display list and
\* the paused buffer hold at most max_len items.
C1_CapacityBound ==
  (IsWrite(last) /\ max_len # None) =>
    /\ Len(unfiltered_list) <= Val(max_len)
    /\ Len(_paused_buffer) <= Val(max_len)

\* C2 (as claimed): after a filter change and after an unpaused write,
\* filtered_list is exactly the items of unfiltered_list that pass the filter,
\* in order.
C2_FilteredIsPassingEntries ==
  (last.op = "log_level_filter" \/ (IsWrite(last) /\ ~paused)) =>
    filtered_list = Passing(unfiltered_list, log_level_filter)

\* C3: a write made while paused leaves unfiltered_list and filtered_list as
\* they were, and the item it creates goes to the front of _paused_buffer only.
C3_PausedWriteIsolated ==
  [][(paused /\ IsWrite(last')) =>
       /\ unfiltered_list' = unfiltered_list
       /\ filtered_list' = filtered_list
       /\ clock' = clock + 1 => PutInFront(_paused_buffer)
       /\ clock' = clock => _paused_buffer' = _paused_buffer]_vars

C3_Witness ==
  /\ paused /\ IsWrite(last)
  /\ _paused_buffer # <<>> /\ Head(_paused_buffer).timestamp = clock
  /\ unfiltered_list # <<>> /\ Head(unfiltered_list).timestamp < clock
  /\ filtered_list # <<>>

\* C4: when paused goes from true to false, unfiltered_list becomes what
\* _paused_buffer held, filtered_list becomes the items of it that pass the
\* unchanged filter, and _paused_buffer becomes empty.
C4_Unpause ==
  [][(paused /\ ~paused') =>
       /\ unfiltered_list' = _paused_buffer
       /\ filtered_list' = Passing(_paused_buffer, log_level_filter)
       /\ _paused_buffer' = <<>>
       /\ log_level_filter' = log_level_filter]_vars

C4_Witness ==
  /\ last.op = "unpause"
  /\ Len(unfiltered_list) >= 2
  /\ filtered_list # <<>>
  /\ Len(filtered_list) < Len(unfiltered_list)
  /\ Head(unfiltered_list).timestamp = clock

\* C5: clear leaves the three lists empty and does not change paused,
\* log_level_filter or max_len.
C5_Clear ==
  [][last'.op = "clear" =>
       /\ unfiltered_list' = <<>>
       /\ filtered_list' = <<>>
       /\ _paused_buffer' = <<>>
       /\ UNCHANGED <<paused, log_level_filter, max_len>>]_vars

C5_Witness ==
  /\ last.op = "clear" /\ paused /\ clock >= 2
  /\ log_level_filter = LOG_DEBUG
  /\ unfiltered_list = <<>> /\ filtered_list = <<>> /\ _paused_buffer = <<>>

\* C6: a write that creates an item puts it at position 1 of its target list;
\* the rest of the list is the list before, in its order, without its last
\* (oldest) item when the write evicts; a write to a list of fewer than two
\* items evicts nothing, so that A then B gives <<B, A>>.  filtered_list gets
\* the item the same way or is left alone.
C6_NewestFirst ==
  [][(IsWrite(last') /\ clock' = clock + 1) =>
       /\ PutInFront(Target)
       /\ Len(Target) < 2 => Target' = <<Head(Target')>> \o Target
       /\ filtered_list' = filtered_list \/ PutInFront(filtered_list)]_vars

C6_Witness ==
  /\ IsWrite(last) /\ ~paused
  /\ Len(unfiltered_list) = Val(max_len) + 1
  /\ clock > Len(unfiltered_list)
  /\ Head(unfiltered_list).timestamp = clock
  /\ \A i \in 1..(Len(unfiltered_list) - 1) :
       unfiltered_list[i].timestamp = unfiltered_list[i + 1].timestamp + 1

\* C7 (as claimed): with max_len None a write that creates an item puts it in
\* front of its target list, which grows by one and loses nothing.
C7_UnboundedWhenNone ==
  [][(max_len = None /\ IsWrite(last') /\ clock' = clock + 1) =>
       /\ Len(Target') = Len(Target) + 1
       /\ Tail(Target') = Target]_vars

\* The reading of "consists solely of whitespace" under which a text with no
\* characters does.
OnlyWhitespace(s) == \A i \in 1..Len(s) : s[i] \in Whitespace

\* C8 (as claimed): a raw write of a text of nothing but whitespace changes
\* none of the lists; a raw write of any other text creates one item, at the
\* front of its target list.
C8_WhitespaceDiscarded ==
  [][last'.op = "write" =>
       IF OnlyWhitespace(last'.s)
       THEN lists' = lists
       ELSE clock' = clock + 1 /\ PutInFront(Target)]_vars

\* C8 (amended): a raw write of a text of one or more characters, all of them
\* whitespace, changes none of the lists; a raw write of any other text, the
\* empty text included, creates one item, at the front of its target list.
C8_NonEmptyWhitespaceDiscarded ==
  [][last'.op = "write" =>
       IF last'.s # <<>> /\ OnlyWhitespace(last'.s)
       THEN lists' = lists /\ clock' = clock
       ELSE clock' = clock + 1 /\ PutInFront(Target)]_vars

C8_Witness ==
  /\ last.op = "write" /\ last.s = <<" ", "\t", "\n">>
  /\ clock = 1 /\ Len(unfiltered_list) = 1 /\ Len(filtered_list) = 1
  /\ _paused_buffer = <<>>

\* The text before the first colon of s, all of s when it has none.
BeforeFirstColon(s) ==
  LET colons == {i \in 1..Len(s) : s[i] = ":"}
  IN IF colons = {} THEN s
     ELSE SubSeq(s, 1, (CHOOSE i \in colons : \A j \in colons : i <= j) - 1)

\* a and b are the same text up to the case of their letters.
SameIgnoringCase(a, b) ==
  /\ Len(a) = Len(b)
  /\ \A i \in 1..Len(a) :
       \/ a[i] = b[i]
       \/ \E j \in 1..Len(Upper) : {a[i], b[i]} = {Upper[j], Lower[j]}

\* The severity C9 gives a leveled write of s with level.
ClaimedSeverity(s, level) ==
  IF level # None THEN Val(level)
  ELSE IF \E k \in DOMAIN SYSLOG_LEVELS :
            SameIgnoringCase(BeforeFirstColon(s), SYSLOG_LEVELS[k])
       THEN CHOOSE k \in DOMAIN SYSLOG_LEVELS :
              SameIgnoringCase(BeforeFirstColon(s), SYSLOG_LEVELS[k])
       ELSE LOG_LEVEL_DEFAULT

\* C9: the item a leveled write creates has the explicit level when one is
\* given (0 included); otherwise the severity whose name is, up to case, the
\* text before the first colon (the whole text without a colon), or
\* LOG_LEVEL_DEFAULT when no name is.
C9_Severity ==
  [][last'.op = "write_level" =>
       /\ Target' # <<>>
       /\ Head(Target').timestamp = clock'
       /\ Head(Target').log_level = ClaimedSeverity(last'.s, last'.level)]_vars

C9_Witness ==
  /\ last.op = "write_level" /\ last.level = None
  /\ last.s = <<"e", "r", "r", "o", "r", ":", " ", "d">>
  /\ Head(Target).timestamp = clock
  /\ Head(Target).log_level = LOG_ERROR

\* C10: every item a raw write creates has severity LOG_LEVEL_CONSOLE,
\* whatever its text.
C10_RawIsConsole ==
  [][(last'.op = "write" /\ clock' = clock + 1) =>
       /\ Target' # <<>>
       /\ Head(Target').timestamp = clock'
       /\ Head(Target').log_level = LOG_LEVEL_CONSOLE]_vars

C10_Witness ==
  /\ last.op = "write"
  /\ last.s = <<"E", "R", "R", "O", "R", ":", "x">>
  /\ ~paused
  /\ Head(unfiltered_list).timestamp = clock
  /\ Head(unfiltered_list).log_level = LOG_LEVEL_CONSOLE
  /\ Head(filtered_list) = Head(unfiltered_list)

\* C11: with max_len fixed at a positive capacity no call raises: no list is
\* ever more than one item over max_len, so no write finds its target list
\* overrun and the assertion of append_truncate never fails.
C11_NoOverrun ==
  /\ ~last.raised
  /\ Len(unfiltered_list) <= Val(max_len) + 1
  /\ Len(_paused_buffer) <= Val(max_len) + 1
  /\ Len(filtered_list) <= Val(max_len) + 1

C11_Witness ==
  /\ IsWrite(last) /\ paused /\ ~last.raised
  /\ Len(_paused_buffer) = Val(max_len) + 1
  /\ Len(unfiltered_list) = Val(max_len) + 1
  /\ Head(_paused_buffer).timestamp = clock
  /\ clock > Len(_paused_buffer)

\* C12: a write that creates an item and finds its target list more than one
\* item over max_len raises and leaves the three lists as they were.
C12_FailFast ==
  [][(/\ IsWrite(last') /\ clock' = clock + 1
      /\ max_len # None
      /\ Len(Target) - Val(max_len) > 1) =>
       /\ last'.raised
       /\ lists' = lists]_vars

C12_Witness ==
  /\ IsWrite(last) /\ last.raised
  /\ max_len # None
  /\ Len(Target) - Val(max_len) > 1
  /\ filtered_list # <<>>

\* a is the first Len(a) items of b
IsPrefix(a, b) == Len(a) <= Len(b) /\ a = SubSeq(b, 1, Len(a))

Min(a, b) == IF a <= b THEN a ELSE b

\* C13: unpausing a pause in which clear was not called leaves in
\* unfiltered_list the items written during the pause, newest first, followed
\* by the items it held when the pause began, less items at the tail (the
\* oldest) that capacity evicted: a prefix of that sequence, whole when it
\* fits max_len.
C13_HistorySurvivesPause ==
  [][(paused /\ ~paused' /\ ~pause_hist.cleared) =>
       LET whole == pause_hist.written \o pause_hist.base
       IN /\ IsPrefix(unfiltered_list', whole)
          /\ Len(unfiltered_list') >= Min(Len(whole), Val(max_len))]_vars

C13_Witness ==
  /\ last.op = "unpause" /\ ~pause_hist.cleared
  /\ Len(pause_hist.written) = 2
  /\ Len(pause_hist.base) = 1
  /\ Len(unfiltered_list) = 2
  /\ unfiltered_list = pause_hist.written

\* C14: when paused goes from false to true, _paused_buffer becomes the
\* contents of unfiltered_list; unfiltered_list, filtered_list and
\* log_level_filter do not change.
C14_PauseSeedsStaging ==
  [][(~paused /\ paused') =>
       /\ _paused_buffer' = unfiltered_list
       /\ UNCHANGED <<unfiltered_list, filtered_list, log_level_filter>>]_vars

C14_Witness ==
  /\ last.op = "pause" /\ paused
  /\ _paused_buffer = unfiltered_list
  /\ Len(unfiltered_list) >= 2
  /\ filtered_list # <<>>
  /\ Len(filtered_list) < Len(unfiltered_list)

\* C15: an unpaused write that creates an item puts it in front of
\* unfiltered_list; it puts the same item in front of filtered_list when the
\* item's severity is at most log_level_filter and leaves filtered_list as it
\* was when not; _paused_buffer is not touched.
C15_UnpausedRouting ==
  [][(~paused /\ IsWrite(last') /\ clock' = clock + 1) =>
       /\ PutInFront(unfiltered_list)
       /\ IF Head(unfiltered_list').log_level <= log_level_filter
          THEN /\ PutInFront(filtered_list)
               /\ Head(filtered_list') = Head(unfiltered_list')
          ELSE filtered_list' = filtered_list
       /\ _paused_buffer' = _paused_buffer]_vars

C15_Witness ==
  /\ IsWrite(last) /\ ~paused
  /\ unfiltered_list # <<>>
  /\ Head(unfiltered_list).timestamp = clock
  /\ Head(unfiltered_list).log_level = LOG_DEBUG
  /\ log_level_filter = LOG_INFO
  /\ filtered_list # <<>>
  /\ Head(filtered_list).timestamp < clock

\* C16: a change of log_level_filter leaves unfiltered_list, _paused_buffer and
\* paused as they were and makes filtered_list the items of unfiltered_list
\* that pass the new threshold, whatever _paused_buffer holds.
C16_FilterChange ==
  [][last'.op = "log_level_filter" =>
       /\ UNCHANGED <<unfiltered_list, _paused_buffer, paused>>
       /\ filtered_list' = Passing(unfiltered_list, log_level_filter')]_vars

C16_Witness ==
  /\ last.op = "log_level_filter" /\ paused
  /\ log_level_filter = LOG_DEBUG
  /\ _paused_buffer # <<>>
  /\ Head(_paused_buffer).timestamp = clock
  /\ filtered_list # <<>>
  /\ Head(filtered_list).timestamp < clock

\* C17: every item of filtered_list has a severity of at most
\* log_level_filter.
C17_FilteredPasses ==
  \A i \in 1..Len(filtered_list) :
    filtered_list[i].log_level <= log_level_filter

C17_Witness ==
  /\ last.op = "log_level_filter"
  /\ log_level_filter = LOG_ERROR
  /\ filtered_list # <<>>
  /\ \E i \in 1..Len(unfiltered_list) :
       unfiltered_list[i].log_level = LOG_DEBUG

\* C18: the threshold is one of ERROR, WARNING, INFO, DEBUG, and an unpaused
\* write that creates an item of severity LOG_LEVEL_CONSOLE or
\* LOG_LEVEL_DEFAULT puts it in front of filtered_list.
C18_SentinelsUnmaskable ==
  [][/\ log_level_filter \in {LOG_ERROR, LOG_WARN, LOG_INFO, LOG_DEBUG}
     /\ (/\ ~paused /\ IsWrite(last') /\ clock' = clock + 1
         /\ Head(unfiltered_list').log_level
              \in {LOG_LEVEL_CONSOLE, LOG_LEVEL_DEFAULT}) =>
          /\ PutInFront(filtered_list)
          /\ Head(filtered_list') = Head(unfiltered_list')]_vars

C18_Witness ==
  /\ last.op = "write_level" /\ ~paused
  /\ log_level_filter = LOG_ERROR
  /\ filtered_list # <<>>
  /\ Head(filtered_list).timestamp = clock
  /\ Head(filtered_list).log_level = LOG_LEVEL_DEFAULT
  /\ clock >= 2

\* C19: the items of unfiltered_list that pass the threshold, in order, are
\* the first items of filtered_list.
C19_PassingIsPrefix ==
  IsPrefix(Passing(unfiltered_list, log_level_filter), filtered_list)

C19_Witness ==
  /\ IsWrite(last) /\ ~paused
  /\ Passing(unfiltered_list, log_level_filter) # <<>>
  /\ Len(filtered_list) > Len(Passing(unfiltered_list, log_level_filter))

\* C20: assigning paused the value it has changes none of the three lists.
C20_SameValueNoOp ==
  [][(last'.op \in {"pause", "unpause", "paused_same"} /\ paused' = paused) =>
       lists' = lists]_vars

C20_Witness ==
  /\ last.op = "paused_same" /\ paused
  /\ _paused_buffer # <<>>
  /\ Head(_paused_buffer).timestamp = clock
  /\ unfiltered_list # <<>>
  /\ _paused_buffer # unfiltered_list

====
